---- MODULE Spec2Model ----
(***************************************************************************)
(* A model of gsc-dashboard: the SQLite store (database.py), the Search    *)
(* Console client and sync orchestrator (gsc_client.py) and the on-demand  *)
(* trigger of the web application (app.py).                                *)
(*                                                                         *)
(* Abstractions: dates are integers (days), 0 stands for SQL NULL / ""     *)
(* where a date or timestamp is stored; datetime('now') is the current day *)
(* `today`; a REAL quotient a/b is kept as the exact pair <<a, b>>.        *)
(***************************************************************************)
EXTENDS Integers, Sequences, FiniteSets, TLC

VARIABLES
    sites,          \* table sites        : set of rows
    keyword_data,   \* table keyword_data : set of rows (Facts)
    site_daily,     \* table site_daily   : set of rows (Rollups)
    sync_log,       \* table sync_log     : sequence of rows, row i has id i
    today,          \* date.today()
    last,           \* history: the store call made last, with its arguments
    ingested,       \* history: number of rows handed to bulk_upsert_keywords so far
    script,         \* the answers the API gives to successive page requests (where
                    \* full_sync is run twice: those answers for each day of the window)
    fetched,        \* the outcome of fetch_property_data against script
    runs,           \* the invocations of full_sync: locals and position of each
    sync_running,   \* app._sync_running
    requests,       \* the POST /api/sync requests: position of each handler
    workers,        \* the run_sync threads: position of each
    scheduler,      \* the interval job of start_scheduler: instances running, firings
    session,        \* the Flask session of each client: session.get("logged_in"), and
                    \* (history) whether it was logged in before
    http            \* history: the request handled last and its response

storeVars == <<sites, keyword_data, site_daily, sync_log, today, last, ingested>>
fetchVars == <<script, fetched>>
webVars == <<scheduler, session, http>>
appVars == <<sync_running, requests, workers, scheduler, session, http>>
vars == <<sites, keyword_data, site_daily, sync_log, today, last, ingested, script, fetched,
          runs, sync_running, requests, workers, scheduler, session, http>>

----------------------------------------------------------------------------
(* Bounds and input domains *)

\* total number of rows the store-level specification feeds to bulk_upsert_keywords
MaxIngest == 2
\* config.MAX_ROWS_PER_REQUEST (25000 in config.py), scaled down
MAX_ROWS_PER_REQUEST == 2
\* number of answers the API is scripted to give; later requests get no rows
MaxPages == 3
\* config.BATCH_SIZE (5 in config.py), scaled down
BATCH_SIZE == 1
\* config.DAYS_TO_KEEP (90 in config.py), scaled down
DAYS_TO_KEEP == 5
\* number of properties a discovery may list
MaxProps == 2
\* number of on-demand trigger requests
MaxRequests == 2
\* number of days that pass while the sites table is driven call by call
MaxTicks == 2
\* number of times the interval of the scheduled job elapses
MaxFirings == 2

NULL == 0
Keywords == {"k1", "k2"}
Pages == {"p1", "p2"}
Dates == {1, 2}

\* metric values of a row (ctr in percent): one without impressions, one with
Metrics ==
    { [clicks |-> 1, impressions |-> 0, ctr |-> 0, position |-> 4],
      [clicks |-> 2, impressions |-> 3, ctr |-> 66, position |-> 2] }

\* the dicts handed to bulk_upsert_keywords
Rows ==
    { [keyword |-> k, page |-> p, date |-> d, clicks |-> m.clicks,
       impressions |-> m.impressions, ctr |-> m.ctr, position |-> m.position] :
      k \in Keywords, p \in Pages, d \in Dates, m \in Metrics }

RECURSIVE SeqsUpTo(_, _)
SeqsUpTo(S, n) ==
    IF n = 0 THEN { <<>> }
    ELSE LET shorter == SeqsUpTo(S, n - 1)
         IN shorter \cup { Append(q, x) : q \in { r \in shorter : Len(r) = n - 1 }, x \in S }

Range(q) == { q[i] : i \in DOMAIN q }

RECURSIVE SumOf(_, _)
\* SUM over the rows of S of f[row], f a function on S
SumOf(S, f) ==
    IF S = {} THEN 0
    ELSE LET x == CHOOSE y \in S : TRUE IN f[x] + SumOf(S \ {x}, f)

Max(S) == IF S = {} THEN 0 ELSE CHOOSE x \in S : \A y \in S : y <= x

NoCall == [op |-> "none"]

----------------------------------------------------------------------------
(* database.py: the store *)

\* schema: sites(id, url UNIQUE, permission_level, added_at, last_sync)
SiteRow(id, url, perm, added, ls) ==
    [id |-> id, url |-> url, permission_level |-> perm, added_at |-> added,
     last_sync |-> ls]

\* schema: keyword_data, UNIQUE(site_id, keyword, page, query_date)
FactKey(f) == <<f.site_id, f.keyword, f.page, f.query_date>>

\* the parameter dict bulk_upsert_keywords builds from a row dict
FactOf(site_id, r) ==
    [site_id |-> site_id, keyword |-> r.keyword, page |-> r.page,
     query_date |-> r.date, clicks |-> r.clicks, impressions |-> r.impressions,
     ctr |-> r.ctr, position |-> r.position]

\* a plain INSERT, without the ON CONFLICT clause
InsertFactNoConflict(kd, f) == kd \cup {f}

\* ON CONFLICT ... DO UPDATE SET clicks = clicks + excluded.clicks
InsertFactAccumulate(kd, f) ==
    { g \in kd : FactKey(g) # FactKey(f) }
        \cup { [f EXCEPT !.clicks = @ + SumOf({ g \in kd : FactKey(g) = FactKey(f) },
                                              [g \in kd |-> g.clicks])] }

\* INSERT ... ON CONFLICT(site_id, keyword, page, query_date) DO UPDATE SET ...
InsertFact(kd, f) ==
    { g \in kd : FactKey(g) # FactKey(f) } \cup {f}

RECURSIVE ExecuteMany(_, _, _)
ExecuteMany(kd, site_id, rows) ==
    IF rows = <<>> THEN kd
    ELSE ExecuteMany(InsertFact(kd, FactOf(site_id, Head(rows))), site_id, Tail(rows))

\* PRAGMA foreign_keys=ON: keyword_data.site_id REFERENCES sites(id)
ForeignKeyOk(st, site_id) == \E s \in st : s.id = site_id

\* bulk_upsert_keywords(site_id, rows): the table afterwards and the outcome.
\* One transaction: an IntegrityError rolls the whole call back.
bulk_upsert_keywords(st, kd, site_id, rows) ==
    IF rows = <<>> THEN [kd |-> kd, ret |-> 0, raised |-> FALSE]
    ELSE IF ~ForeignKeyOk(st, site_id) THEN [kd |-> kd, ret |-> 0, raised |-> TRUE]
    ELSE [kd |-> ExecuteMany(kd, site_id, rows), ret |-> Len(rows), raised |-> FALSE]

\* schema: site_daily, UNIQUE(site_id, query_date)
\* a / b as SQL computes it under CASE WHEN b > 0 ... ELSE 0
Quot(a, b) == IF b > 0 THEN <<a, b>> ELSE <<0, 1>>

\* the SELECT without its WHERE site_id = ? (every site's facts in one group per date)
AggregateRowsNoWhere(kd, site_id) ==
    LET group(d) == { f \in kd : f.query_date = d }
        row(d) ==
            LET g == group(d)
                imps == SumOf(g, [f \in g |-> f.impressions])
                clk == SumOf(g, [f \in g |-> f.clicks])
            IN [site_id |-> site_id, query_date |-> d,
                total_clicks |-> clk, total_impressions |-> imps,
                avg_position |-> Quot(SumOf(g, [f \in g |-> f.position * f.impressions]), imps),
                avg_ctr |-> Quot(clk, imps),
                keyword_count |-> Cardinality({ f.keyword : f \in g })]
    IN { row(d) : d \in { f.query_date : f \in kd } }

\* the SELECT of update_site_daily_aggregates: one row per query_date of the site
AggregateRows(kd, site_id) ==
    LET mine == { f \in kd : f.site_id = site_id }
        group(d) == { f \in mine : f.query_date = d }
        row(d) ==
            LET g == group(d)
                imps == SumOf(g, [f \in g |-> f.impressions])
                clk == SumOf(g, [f \in g |-> f.clicks])
            IN [site_id |-> site_id, query_date |-> d,
                total_clicks |-> clk, total_impressions |-> imps,
                avg_position |-> Quot(SumOf(g, [f \in g |-> f.position * f.impressions]), imps),
                avg_ctr |-> Quot(clk, imps),
                keyword_count |-> Cardinality({ f.keyword : f \in g })]
    IN { row(d) : d \in { f.query_date : f \in mine } }

\* the table emptied first: DELETE FROM site_daily, then the INSERT ... SELECT
update_site_daily_aggregatesTruncate(kd, sd, site_id) ==
    AggregateRows(kd, site_id)

\* update_site_daily_aggregates(site_id): INSERT OR REPLACE INTO site_daily SELECT ...
update_site_daily_aggregates(kd, sd, site_id) ==
    LET new == AggregateRows(kd, site_id)
    IN { r \in sd : ~\E n \in new : n.site_id = r.site_id /\ n.query_date = r.query_date }
       \cup new

\* INSERT OR REPLACE INTO sites: the row of the url is deleted and inserted anew
upsert_siteReplace(st, url, perm, now) ==
    LET id == Max({ s.id : s \in st }) + 1
    IN [sites |-> { s \in st : s.url # url } \cup {SiteRow(id, url, perm, now, NULL)},
        ret |-> id]

\* upsert_site(url, permission_level) on the day now: the table afterwards and the
\* id returned (added_at defaults to datetime('now') when the row is inserted)
upsert_site(st, url, perm, now) ==
    IF \E s \in st : s.url = url
    THEN LET old == CHOOSE s \in st : s.url = url
         IN [sites |-> (st \ {old}) \cup {[old EXCEPT !.permission_level = perm]},
             ret |-> old.id]
    ELSE LET id == Max({ s.id : s \in st }) + 1
         IN [sites |-> st \cup {SiteRow(id, url, perm, now, NULL)}, ret |-> id]

----------------------------------------------------------------------------
(* gsc_client.py: fetch_property_data *)

\* rows as the API returns them: "keys" holds the dimension values
ApiRows ==
    { [keys |-> <<"k1", "p1">>, clicks |-> 2, impressions |-> 3, ctr |-> 66, position |-> 2],
      [keys |-> <<"k2">>, clicks |-> 1, impressions |-> 1, ctr |-> 100, position |-> 7] }

HttpError(status) == [kind |-> "HttpError", status |-> status]
Page(rows) == [kind |-> "rows", rows |-> rows]

\* what one searchanalytics().query().execute() can answer
Responses ==
    { Page(rows) : rows \in SeqsUpTo(ApiRows, MAX_ROWS_PER_REQUEST) }
        \cup { HttpError(403), HttpError(500) }

\* the dict fetch_property_data appends for an API row
ConvertRow(row) ==
    [keyword |-> IF Len(row.keys) > 0 THEN row.keys[1] ELSE "",
     page |-> IF Len(row.keys) > 1 THEN row.keys[2] ELSE "",
     clicks |-> row.clicks, impressions |-> row.impressions,
     ctr |-> row.ctr, position |-> row.position]

ConvertRows(rows) == [i \in DOMAIN rows |-> ConvertRow(rows[i])]

\* start_row left where it was
NextStartRowStuck(start_row, rows) == start_row

\* start_row += len(rows)
NextStartRow(start_row, rows) == start_row + Len(rows)

\* if len(rows) < MAX_ROWS_PER_REQUEST: break
IsLastPage(rows) == Len(rows) < MAX_ROWS_PER_REQUEST

\* except HttpError: a 403 re-raised like any other status
IsForbiddenNever(resp) == FALSE

\* except HttpError: every status swallowed like a 403
IsForbiddenAlways(resp) == TRUE

\* except HttpError as e: if e.resp.status == 403
IsForbidden(resp) == resp.status = 403

\* the rows collected so far returned on a 403
ForbiddenResultPartial(all_rows) == all_rows

\* if e.resp.status == 403: return []
ForbiddenResult(all_rows) == <<>>

\* the answer to the next request: the head of the script, no rows once it is used up
Execute(sc) == IF sc = <<>> THEN Page(<<>>) ELSE Head(sc)

RECURSIVE FetchLoop(_, _, _, _)
\* the while True loop; sent collects the startRow of every request made
FetchLoop(sc, all_rows, start_row, sent) ==
    LET resp == Execute(sc)
        asked == Append(sent, start_row)
    IN IF resp.kind = "HttpError"
       THEN IF IsForbidden(resp)
            THEN [rows |-> ForbiddenResult(all_rows), raised |-> FALSE, requests |-> asked]
            ELSE [rows |-> <<>>, raised |-> TRUE, requests |-> asked]
       ELSE IF resp.rows = <<>>
       THEN [rows |-> all_rows, raised |-> FALSE, requests |-> asked]
       ELSE IF IsLastPage(resp.rows)
       THEN [rows |-> all_rows \o ConvertRows(resp.rows), raised |-> FALSE,
             requests |-> asked]
       ELSE FetchLoop(Tail(sc), all_rows \o ConvertRows(resp.rows),
                      NextStartRow(start_row, resp.rows), asked)

\* fetch_property_data(service, site_url, start_date, end_date) against a service
\* answering with the script sc
fetch_property_data(sc) == FetchLoop(sc, <<>>, 0, <<>>)

----------------------------------------------------------------------------
(* database.py: get_movers *)

\* p - q for quotients p, q kept as pairs with positive denominators
FracSub(p, q) == <<p[1] * q[2] - q[1] * p[2], p[2] * q[2]>>

FracAbs(p) == <<IF p[1] < 0 THEN 0 - p[1] ELSE p[1], p[2]>>

\* p > n and p < n for a pair p and an integer n
FracGt(p, n) == p[1] > n * p[2]
FracLt(p, n) == p[1] < n * p[2]

\* p <= q for pairs
FracLeq(p, q) == p[1] * q[2] <= q[1] * p[2]

\* WHERE query_date >= this_week_start
ThisWeek(kd, now, days) == { f \in kd : f.query_date >= now - days }

\* WHERE query_date >= prev_week_start AND query_date < prev_week_end
PrevWeek(kd, now, days) ==
    { f \in kd : f.query_date >= now - days * 2 /\ f.query_date < now - days }

\* one row of a CTE: the group of (site_id, keyword) within the Facts fs
WeekGroup(fs, site_id, keyword) ==
    LET g == { f \in fs : f.site_id = site_id /\ f.keyword = keyword }
        imps == SumOf(g, [f \in g |-> f.impressions])
    IN [site_id |-> site_id, keyword |-> keyword,
        avg_pos |-> Quot(SumOf(g, [f \in g |-> f.position * f.impressions]), imps),
        clicks |-> SumOf(g, [f \in g |-> f.clicks]),
        impressions |-> imps]

\* GROUP BY site_id, keyword
WeekGroups(fs) == { WeekGroup(fs, f.site_id, f.keyword) : f \in fs }

\* the rows of the final SELECT before ORDER BY and LIMIT
MoverRows(st, kd, now, days) ==
    LET this_week == WeekGroups(ThisWeek(kd, now, days))
        prev_week == WeekGroups(PrevWeek(kd, now, days))
    IN { [site_url |-> s.url, keyword |-> tw.keyword,
          current_pos |-> tw.avg_pos, prev_pos |-> pw.avg_pos,
          pos_change |-> FracSub(pw.avg_pos, tw.avg_pos),
          current_clicks |-> tw.clicks, prev_clicks |-> pw.clicks,
          click_change |-> tw.clicks - pw.clicks,
          current_impressions |-> tw.impressions] :
         <<tw, pw, s>> \in
            { x \in this_week \X prev_week \X st :
                /\ x[1].site_id = x[2].site_id
                /\ x[1].keyword = x[2].keyword
                /\ x[1].site_id = x[3].id
                /\ FracGt(FracAbs(FracSub(x[2].avg_pos, x[1].avg_pos)), 1) } }

\* the orders ORDER BY pos_change DESC may return the rows R in (ties in any order)
OrderedDesc(R) ==
    { q \in [1..Cardinality(R) -> R] :
        /\ \A m, n \in DOMAIN q : q[m] = q[n] => m = n
        /\ \A m, n \in DOMAIN q : m < n => FracLeq(q[n].pos_change, q[m].pos_change) }

\* q[:n]
Take(q, n) == SubSeq(q, 1, IF Len(q) < n THEN Len(q) ELSE n)

RECURSIVE InsertAsc(_, _)
\* r put into the ascending list q behind the entries that are not greater
InsertAsc(q, r) ==
    IF q = <<>> THEN <<r>>
    ELSE IF FracLeq(Head(q).pos_change, r.pos_change)
    THEN <<Head(q)>> \o InsertAsc(Tail(q), r)
    ELSE <<r>> \o q

RECURSIVE SortedAsc(_)
\* sorted(q, key=lambda x: x["pos_change"]): stable
SortedAsc(q) ==
    IF q = <<>> THEN <<>>
    ELSE InsertAsc(SortedAsc(SubSeq(q, 1, Len(q) - 1)), q[Len(q)])

IsWinner(r) == FracGt(r.pos_change, 0)
IsLoser(r) == FracLt(r.pos_change, 0)

\* get_movers(days, limit) on the rows in the order ordered the query returned
get_movers(ordered, limit) ==
    LET all_rows == Take(ordered, limit * 2)
    IN [winners |-> Take(SelectSeq(all_rows, IsWinner), limit),
        losers |-> Take(SortedAsc(SelectSeq(all_rows, IsLoser)), limit)]

----------------------------------------------------------------------------
(* database.py: last_sync, sync_log, retention *)

\* the UPDATE without its WHERE id = ?
update_site_last_syncAll(st, site_id, now) ==
    { [s EXCEPT !.last_sync = now] : s \in st }

\* update_site_last_sync(site_id): last_sync = datetime('now')
update_site_last_sync(st, site_id, now) ==
    { IF s.id = site_id THEN [s EXCEPT !.last_sync = now] ELSE s : s \in st }

\* create_sync_log(): the table afterwards and cursor.lastrowid
create_sync_log(log, now) ==
    [log |-> Append(log, [started_at |-> now, completed_at |-> NULL, sites_synced |-> 0,
                          total_rows |-> 0, errors |-> <<>>, status |-> "running"]),
     ret |-> Len(log) + 1]

\* the UPDATE without its WHERE id = ?
update_sync_logAll(log, log_id, sites_synced, total_rows, errors, status, now) ==
    [n \in DOMAIN log |->
        [log[n] EXCEPT !.completed_at = now, !.sites_synced = sites_synced,
                       !.total_rows = total_rows, !.errors = errors, !.status = status]]

\* update_sync_log(log_id, sites_synced, total_rows, errors, status)
update_sync_log(log, log_id, sites_synced, total_rows, errors, status, now) ==
    [n \in DOMAIN log |->
        IF n = log_id
        THEN [log[n] EXCEPT !.completed_at = now, !.sites_synced = sites_synced,
                            !.total_rows = total_rows, !.errors = errors, !.status = status]
        ELSE log[n]]

\* both DELETEs with query_date <= ? in place of query_date < ?
cleanup_old_dataInclusive(kd, sd, now) ==
    LET cutoff == now - DAYS_TO_KEEP
    IN [kd |-> { f \in kd : ~(f.query_date <= cutoff) },
        sd |-> { r \in sd : ~(r.query_date <= cutoff) },
        ret |-> Cardinality({ f \in kd : f.query_date <= cutoff })]

\* cleanup_old_data(): both tables afterwards and the rowcount of the first DELETE
cleanup_old_data(kd, sd, now) ==
    LET cutoff == now - DAYS_TO_KEEP
    IN [kd |-> { f \in kd : ~(f.query_date < cutoff) },
        sd |-> { r \in sd : ~(r.query_date < cutoff) },
        ret |-> Cardinality({ f \in kd : f.query_date < cutoff })]

----------------------------------------------------------------------------
(* gsc_client.py: sync_property and full_sync, one invocation per process *)

\* the processes that call full_sync: 0 is sync.py's main, the others are the
\* worker threads of the on-demand trigger
Procs == 0..MaxRequests
Triggers == 1..MaxRequests

\* the browsers talking to the application
Clients == {"c1", "c2"}

NoRequest == [client |-> "", method |-> "", route |-> "", password |-> "", response |-> ""]

\* app.py before any request: _sync_running = False, no thread, the job not
\* running, nobody logged in
AppIdle ==
    /\ sync_running = FALSE
    /\ requests = [q \in Triggers |-> [pc |-> "unsent", ended_before |-> 0]]
    /\ workers = [q \in Triggers |-> "none"]
    /\ scheduler = [instances |-> 0, fired |-> 0, skipped |-> 0]
    /\ session = [c \in Clients |-> [logged_in |-> FALSE, was_logged_in |-> FALSE]]
    /\ http = NoRequest

\* the error string "" of a successful sync_property
NoError == [url |-> "", exc |-> ""]

\* f"{site_url}: {e}"
ErrorMsg(site_url, e) == [url |-> site_url, exc |-> e]

NoFetch == [script |-> <<>>, rows |-> <<>>, raised |-> FALSE, requests |-> <<>>]

\* the locals of full_sync and of the sync_property call it is in; attempted,
\* threw, last_fetch, fetch_dates (the date range of every fetch_property_data
\* call of the current sync_property) and failed_at (the step whose exception
\* left full_sync) are history
IdleRun ==
    [pc |-> "idle", days |-> 0, log_id |-> NULL, properties |-> <<>>, k |-> 1,
     site_map |-> <<>>, i |-> 0, j |-> 0, total_rows |-> 0, errors |-> <<>>,
     synced_count |-> 0, end_date |-> 0, day_offset |-> 0, sp_rows |-> 0,
     pauses |-> 0, exc |-> "", summary |-> [status |-> ""],
     attempted |-> <<>>, threw |-> <<>>, last_fetch |-> NoFetch, fetch_dates |-> <<>>,
     failed_at |-> "", upserted |-> 0]

\* a list of pairs in place of the dict: every assignment is appended
DictSetAppend(m, url, id) == Append(m, [url |-> url, id |-> id])

\* site_map[url] = site_id on a dict that keeps insertion order
DictSet(m, url, id) ==
    IF \E n \in DOMAIN m : m[n].url = url
    THEN [n \in DOMAIN m |-> IF m[n].url = url THEN [url |-> url, id |-> id] ELSE m[n]]
    ELSE Append(m, [url |-> url, id |-> id])

\* urls = list(site_map.keys())
Urls(run) == [n \in DOMAIN run.site_map |-> run.site_map[n].url]

\* the url of the iteration: batch[j] of batch = urls[i : i + BATCH_SIZE]
CurrentUrl(run) == Urls(run)[run.i + run.j + 1]

\* site_map[url]
SiteIdOf(run, url) == (CHOOSE e \in Range(run.site_map) : e.url = url).id

\* len(urls[i : i + BATCH_SIZE])
BatchLen(run) ==
    IF Len(run.site_map) - run.i < BATCH_SIZE THEN Len(run.site_map) - run.i ELSE BATCH_SIZE

\* the call sync_property(service, url, site_id, days) up to its try
EnterSyncProperty(run) ==
    [run EXCEPT !.pc = IF run.days > 0 THEN "fetch_day" ELSE "aggregates",
                !.end_date = today - 2, !.day_offset = 0, !.sp_rows = 0,
                !.attempted = Append(@, CurrentUrl(run)), !.fetch_dates = <<>>]

\* the loops over the batches and their urls starting
BeginLoop(run) ==
    IF Len(run.site_map) = 0
    THEN [run EXCEPT !.pc = "cleanup"]
    ELSE EnterSyncProperty([run EXCEPT !.i = 0, !.j = 0])

\* the same without the pause between batches
AfterSourceNoSleep(run, rows, error) ==
    LET r1 == [run EXCEPT !.total_rows = @ + rows,
                          !.errors = IF error # [url |-> "", exc |-> ""]
                                     THEN Append(@, error) ELSE @,
                          !.synced_count = IF error # [url |-> "", exc |-> ""]
                                           THEN @ ELSE @ + 1]
    IN IF r1.j + 1 < BatchLen(r1)
       THEN EnterSyncProperty([r1 EXCEPT !.j = @ + 1])
       ELSE IF r1.i + BATCH_SIZE < Len(r1.site_map)
       THEN EnterSyncProperty([r1 EXCEPT !.i = @ + BATCH_SIZE, !.j = 0])
       ELSE [r1 EXCEPT !.pc = "cleanup"]

\* rows, error = sync_property(...) returned: the bookkeeping of full_sync and the
\* move to the next url, to the pause after the batch, or out of the loops
AfterSource(run, rows, error) ==
    LET r1 == [run EXCEPT !.total_rows = @ + rows,
                          !.errors = IF error # NoError THEN Append(@, error) ELSE @,
                          !.synced_count = IF error # NoError THEN @ ELSE @ + 1]
    IN IF r1.j + 1 < BatchLen(r1)
       THEN EnterSyncProperty([r1 EXCEPT !.j = @ + 1])
       ELSE IF r1.i + BATCH_SIZE < Len(r1.site_map)
       THEN [r1 EXCEPT !.pc = "sleep"]
       ELSE [r1 EXCEPT !.pc = "cleanup"]

\* sync_property without its try/except: the exception leaves full_sync
SourceFailedEscapes(run, e) ==
    [run EXCEPT !.pc = "raised", !.exc = e, !.threw = Append(@, CurrentUrl(run))]

\* except Exception as e: return 0, f"{site_url}: {e}"
SourceFailed(run, e) ==
    AfterSource([run EXCEPT !.threw = Append(@, CurrentUrl(run))], 0,
                ErrorMsg(CurrentUrl(run), e))

\* return total_rows, ""
SourceSynced(run) == AfterSource(run, run.sp_rows, NoError)

\* an exception that nothing in full_sync catches
Raise(run, e) == [run EXCEPT !.pc = "raised", !.exc = e, !.failed_at = run.pc]

\* the end of one iteration of for day_offset in range(days); upserted counts the
\* rows bulk_upsert_keywords has written for this run
NextDay(run, count) ==
    [run EXCEPT !.sp_rows = @ + count, !.day_offset = @ + 1, !.upserted = @ + count,
                !.pc = IF run.day_offset + 1 < run.days THEN "fetch_day" ELSE "aggregates"]

\* a status that ignores the error list
StatusOfAlwaysCompleted(errors) == "completed"

\* status = "completed" if not errors else "completed_with_errors"
StatusOf(errors) == IF errors = <<>> THEN "completed" ELSE "completed_with_errors"

\* the summary dict of full_sync
Summary(run) ==
    [properties_discovered |-> Len(run.properties), sites_synced |-> run.synced_count,
     total_rows |-> run.total_rows, errors |-> run.errors, status |-> StatusOf(run.errors)]

\* full_sync(days) called by process p
CallFullSync(run, days) == [run EXCEPT !.pc = "create_log", !.days = days]

\* log_id = create_sync_log()
CreateLog(p, w) ==
    /\ runs[p].pc = "create_log"
    /\ \E fault \in w.faults :
        IF ~fault
        THEN LET out == create_sync_log(sync_log, today)
             IN /\ sync_log' = out.log
                /\ runs' = [runs EXCEPT ![p] = [@ EXCEPT !.log_id = out.ret, !.pc = "build"]]
        ELSE /\ runs' = [runs EXCEPT ![p] = Raise(@, "StorageError")]
             /\ UNCHANGED sync_log
    /\ UNCHANGED <<sites, keyword_data, site_daily, today, last, ingested, fetchVars, appVars>>

\* service = _build_service()
BuildService(p) ==
    /\ runs[p].pc = "build"
    /\ \/ runs' = [runs EXCEPT ![p] = [@ EXCEPT !.pc = "discover"]]
       \/ runs' = [runs EXCEPT ![p] = Raise(@, "AuthError")]
    /\ UNCHANGED <<storeVars, fetchVars, appVars>>

\* properties = discover_properties(service); site_map = {}
Discover(p, w) ==
    /\ runs[p].pc = "discover"
    /\ \/ \E props \in w.discoveries :
            runs' = [runs EXCEPT ![p] =
                        IF props = <<>>
                        THEN BeginLoop([@ EXCEPT !.properties = props])
                        ELSE [@ EXCEPT !.properties = props, !.k = 1, !.pc = "register"]]
       \/ runs' = [runs EXCEPT ![p] = Raise(@, "AuthError")]
    /\ UNCHANGED <<storeVars, fetchVars, appVars>>

\* one iteration of for prop in properties: upsert_site, site_map[url] = site_id
RegisterSite(p, w) ==
    /\ runs[p].pc = "register"
    /\ \E fault \in w.faults :
        LET run == runs[p]
            prop == run.properties[run.k]
            out == upsert_site(sites, prop.siteUrl, prop.permissionLevel, today)
            r1 == [run EXCEPT !.site_map = DictSet(@, prop.siteUrl, out.ret), !.k = @ + 1]
        IN IF ~fault
           THEN /\ sites' = out.sites
                /\ runs' = [runs EXCEPT ![p] =
                                IF run.k = Len(run.properties) THEN BeginLoop(r1) ELSE r1]
           ELSE /\ runs' = [runs EXCEPT ![p] = Raise(run, "StorageError")]
                /\ UNCHANGED sites
    /\ UNCHANGED <<keyword_data, site_daily, sync_log, today, last, ingested, fetchVars, appVars>>

\* one iteration of for day_offset in range(days): fetch the day, tag and upsert
SyncDay(p, w) ==
    /\ runs[p].pc = "fetch_day"
    /\ \E sc \in w.scripts, fault \in w.faults :
        LET run == runs[p]
            res == fetch_property_data(sc)
            d == (run.end_date - run.days) + run.day_offset
            rows == [n \in DOMAIN res.rows |-> res.rows[n] @@ [date |-> d]]
            r1 == [run EXCEPT !.last_fetch = [script |-> sc] @@ res,
                              !.fetch_dates = Append(@, [start_date |-> d, end_date |-> d])]
        IN IF res.raised
           THEN /\ runs' = [runs EXCEPT ![p] = SourceFailed(r1, "HttpError")]
                /\ UNCHANGED keyword_data
           ELSE IF rows = <<>>
           THEN /\ runs' = [runs EXCEPT ![p] = NextDay(r1, 0)]
                /\ UNCHANGED keyword_data
           ELSE LET out == bulk_upsert_keywords(sites, keyword_data,
                                                SiteIdOf(run, CurrentUrl(run)), rows)
                IN IF ~fault /\ ~out.raised
                   THEN /\ keyword_data' = out.kd
                        /\ runs' = [runs EXCEPT ![p] = NextDay(r1, out.ret)]
                   ELSE /\ runs' = [runs EXCEPT ![p] = SourceFailed(r1, "StorageError")]
                        /\ UNCHANGED keyword_data
    /\ UNCHANGED <<sites, site_daily, sync_log, today, last, ingested, fetchVars, appVars>>

\* update_site_daily_aggregates(site_id)
SyncAggregates(p, w) ==
    /\ runs[p].pc = "aggregates"
    /\ \E fault \in w.faults :
        LET run == runs[p]
        IN IF ~fault
           THEN /\ site_daily' = update_site_daily_aggregates(keyword_data, site_daily,
                                                             SiteIdOf(run, CurrentUrl(run)))
                /\ runs' = [runs EXCEPT ![p] = [run EXCEPT !.pc = "last_sync"]]
           ELSE /\ runs' = [runs EXCEPT ![p] = SourceFailed(run, "StorageError")]
                /\ UNCHANGED site_daily
    /\ UNCHANGED <<sites, keyword_data, sync_log, today, last, ingested, fetchVars, appVars>>

\* update_site_last_sync(site_id); return total_rows, ""
SyncLastSync(p, w) ==
    /\ runs[p].pc = "last_sync"
    /\ \E fault \in w.faults :
        LET run == runs[p]
        IN IF ~fault
           THEN /\ sites' = update_site_last_sync(sites, SiteIdOf(run, CurrentUrl(run)),
                                                  today)
                /\ runs' = [runs EXCEPT ![p] = SourceSynced(run)]
           ELSE /\ runs' = [runs EXCEPT ![p] = SourceFailed(run, "StorageError")]
                /\ UNCHANGED sites
    /\ UNCHANGED <<keyword_data, site_daily, sync_log, today, last, ingested, fetchVars, appVars>>

\* if i + BATCH_SIZE < len(urls): time.sleep(1); then the next batch
Sleep(p) ==
    /\ runs[p].pc = "sleep"
    /\ runs' = [runs EXCEPT ![p] =
                    EnterSyncProperty([@ EXCEPT !.pauses = @ + 1, !.i = @ + BATCH_SIZE,
                                                !.j = 0])]
    /\ UNCHANGED <<storeVars, fetchVars, appVars>>

\* deleted = cleanup_old_data()
Cleanup(p, w) ==
    /\ runs[p].pc = "cleanup"
    /\ \E fault \in w.faults :
        IF ~fault
        THEN LET out == cleanup_old_data(keyword_data, site_daily, today)
             IN /\ keyword_data' = out.kd
                /\ site_daily' = out.sd
                /\ runs' = [runs EXCEPT ![p] = [@ EXCEPT !.pc = "finalize"]]
        ELSE /\ runs' = [runs EXCEPT ![p] = Raise(@, "StorageError")]
             /\ UNCHANGED <<keyword_data, site_daily>>
    /\ UNCHANGED <<sites, sync_log, today, last, ingested, fetchVars, appVars>>

\* update_sync_log(log_id, synced_count, total_rows, "\n".join(errors), status);
\* return summary
Finalize(p, w) ==
    /\ runs[p].pc = "finalize"
    /\ \E fault \in w.faults :
        LET run == runs[p]
        IN IF ~fault
           THEN /\ sync_log' = update_sync_log(sync_log, run.log_id, run.synced_count,
                                               run.total_rows, run.errors,
                                               StatusOf(run.errors), today)
                /\ runs' = [runs EXCEPT ![p] =
                                [run EXCEPT !.pc = "returned", !.summary = Summary(run)]]
           ELSE /\ runs' = [runs EXCEPT ![p] = Raise(run, "StorageError")]
                /\ UNCHANGED sync_log
    /\ UNCHANGED <<sites, keyword_data, site_daily, today, last, ingested, fetchVars, appVars>>

\* any step of the full_sync invocation of process p in the world w: the answers
\* discovery may give (w.discoveries), the answers the API may give to the page
\* requests of a day (w.scripts), and whether a store call may fail (w.faults)
FullSyncStep(p, w) ==
    \/ CreateLog(p, w)
    \/ BuildService(p)
    \/ Discover(p, w)
    \/ RegisterSite(p, w)
    \/ SyncDay(p, w)
    \/ SyncAggregates(p, w)
    \/ SyncLastSync(p, w)
    \/ Sleep(p)
    \/ Cleanup(p, w)
    \/ Finalize(p, w)

----------------------------------------------------------------------------
(* sync.py: one command-line run on a fresh database *)

\* what sites().list() may return: each property with its permission level
SiteEntries ==
    { [siteUrl |-> "a", permissionLevel |-> "siteOwner"],
      [siteUrl |-> "b", permissionLevel |-> "siteRestrictedUser"],
      [siteUrl |-> "c", permissionLevel |-> "siteOwner"] }

\* the discovery answers of a run: every list of up to MaxProps properties
RunDiscoveries == SeqsUpTo(SiteEntries, MaxProps)

\* the --days arguments
RunDays == {1, 2}

\* how the API answers the page requests of one day: no rows, one page, two
\* pages, no access (at once, or after a full page), a server error
RunScripts ==
    LET r1 == CHOOSE r \in ApiRows : Len(r.keys) = 2
        r2 == CHOOSE r \in ApiRows : Len(r.keys) = 1
        full == Page([n \in 1..MAX_ROWS_PER_REQUEST |-> r1])
    IN { <<>>,
         <<Page(<<r1>>)>>,
         <<full, Page(<<r2>>)>>,
         <<HttpError(403)>>,
         <<full, HttpError(403)>>,
         <<HttpError(500)>> }

RunInit ==
    /\ sites = {}
    /\ keyword_data = {}
    /\ site_daily = {}
    /\ sync_log = <<>>
    /\ today = 10
    /\ last = NoCall
    /\ ingested = 0
    /\ script = <<>>
    /\ fetched = NoCall
    /\ runs = [p \in Procs |-> IdleRun]
    /\ AppIdle

\* main(): result = full_sync(days)
Main ==
    /\ runs[0].pc = "idle"
    /\ \E days \in RunDays : runs' = [runs EXCEPT ![0] = CallFullSync(@, days)]
    /\ UNCHANGED <<storeVars, fetchVars, appVars>>

RunWorld == [discoveries |-> RunDiscoveries, scripts |-> RunScripts, faults |-> BOOLEAN]

RunNext ==
    \/ Main
    \/ FullSyncStep(0, RunWorld)

RunSpec == RunInit /\ [][RunNext]_vars

----------------------------------------------------------------------------
(* sync.py run twice on one day against an upstream that answers alike *)

\* the upstream: for each day of the window, how the API answers its requests
Upstreams == [1..Max(RunDays) -> RunScripts]

RerunInit ==
    /\ sites = {}
    /\ keyword_data = {}
    /\ site_daily = {}
    /\ sync_log = <<>>
    /\ today = 10
    /\ last = NoCall
    /\ ingested = 0
    /\ script \in Upstreams
    /\ fetched = NoCall
    /\ runs = [p \in Procs |-> IdleRun]
    /\ AppIdle

\* the world of run p: the first run's discovery answer is any list, the second
\* run gets the same list; each day is answered as the upstream answers that day;
\* no store call fails
RerunWorld(p) ==
    [discoveries |-> IF p = 0 THEN RunDiscoveries ELSE {runs[0].properties},
     scripts |-> {IF runs[p].day_offset < Len(script)
                  THEN script[runs[p].day_offset + 1] ELSE <<>>},
     faults |-> {FALSE}]

\* main() again with the same --days, once the first run has returned; last keeps
\* the store as the first run left it
Rerun ==
    /\ runs[0].pc = "returned"
    /\ runs[1].pc = "idle"
    /\ runs' = [runs EXCEPT ![1] = CallFullSync(@, runs[0].days)]
    /\ last' = [op |-> "full_sync", sites |-> sites, keyword_data |-> keyword_data,
                site_daily |-> site_daily, sync_log |-> sync_log]
    /\ UNCHANGED <<sites, keyword_data, site_daily, sync_log, today, ingested, fetchVars,
                   appVars>>

RerunNext ==
    \/ Main
    \/ FullSyncStep(0, RerunWorld(0))
    \/ Rerun
    \/ FullSyncStep(1, RerunWorld(1))

RerunSpec == RerunInit /\ [][RerunNext]_vars

----------------------------------------------------------------------------
(* app.py: POST /api/sync from a logged-in session, and the run_sync threads *)

\* the "days" of the request body
AppDays == {1}

\* the discovery answers and API answers while the application runs
AppDiscoveries ==
    LET a == CHOOSE e \in SiteEntries : e.siteUrl = "a"
        b == CHOOSE e \in SiteEntries : e.siteUrl = "b"
    IN { <<a, b>> }

AppScripts ==
    { <<Page(<<CHOOSE r \in ApiRows : Len(r.keys) = 2>>)>>, <<HttpError(500)>> }

\* store calls do not fail while the application runs; a run fails when its
\* credentials or discovery do
AppWorld == [discoveries |-> AppDiscoveries, scripts |-> AppScripts, faults |-> {FALSE}]

\* the number of run_sync threads that have ended
Ended == Cardinality({ w \in Triggers : workers[w] = "ended" })

\* trigger_sync up to its test: if _sync_running: return 409 "already_running"
TriggerTest(q) ==
    /\ requests[q].pc = "unsent"
    /\ requests' = [requests EXCEPT ![q] =
                        [pc |-> IF sync_running THEN "already_running" ELSE "passed",
                         ended_before |-> Ended]]
    /\ UNCHANGED <<storeVars, fetchVars, runs, sync_running, workers>>

\* POST /api/sync from a logged-in session, up to the test
TriggerCheck(q) ==
    /\ TriggerTest(q)
    /\ UNCHANGED webVars

\* trigger_sync after its test: thread.start(); return "started"
TriggerStart(q) ==
    /\ requests[q].pc = "passed"
    /\ requests' = [requests EXCEPT ![q].pc = "started"]
    /\ workers' = [workers EXCEPT ![q] = "spawned"]
    /\ UNCHANGED <<storeVars, fetchVars, runs, sync_running, webVars>>

\* run_sync: _sync_running = True; try: full_sync(days)
WorkerStart(q) ==
    /\ workers[q] = "spawned"
    /\ sync_running' = TRUE
    /\ workers' = [workers EXCEPT ![q] = "running"]
    /\ \E days \in AppDays : runs' = [runs EXCEPT ![q] = CallFullSync(@, days)]
    /\ UNCHANGED <<storeVars, fetchVars, requests, webVars>>

\* a run_sync whose release is skipped when full_sync raised
FlagAfterNoFinally(run) == IF run.pc = "raised" THEN sync_running ELSE FALSE

\* finally: _sync_running = False
FlagAfter(run) == FALSE

\* run_sync: full_sync returned, or raised and the exception was logged
WorkerEnd(q) ==
    /\ workers[q] = "running"
    /\ runs[q].pc \in {"returned", "raised"}
    /\ sync_running' = FlagAfter(runs[q])
    /\ workers' = [workers EXCEPT ![q] = "ended"]
    /\ UNCHANGED <<storeVars, fetchVars, runs, requests, webVars>>

AppInit == RunInit

Next ==
    \/ \E q \in Triggers : TriggerCheck(q)
    \/ \E q \in Triggers : TriggerStart(q)
    \/ \E q \in Triggers : WorkerStart(q)
    \/ \E q \in Triggers : FullSyncStep(q, AppWorld)
    \/ \E q \in Triggers : WorkerEnd(q)

Spec == AppInit /\ [][Next]_vars

----------------------------------------------------------------------------
(* app.py: the interval job of start_scheduler beside one on-demand trigger *)

\* add_job(..., max_instances=1)
MaxInstances == 1

\* the interval elapsed: the job lambda: full_sync(7) is submitted to the
\* scheduler's executor, or skipped when max_instances of it are running (the
\* window of 7 days is scaled down to the application's)
SchedulerFire ==
    /\ scheduler.fired < MaxFirings
    /\ IF scheduler.instances >= MaxInstances
       THEN /\ scheduler' = [scheduler EXCEPT !.fired = @ + 1, !.skipped = @ + 1]
            /\ UNCHANGED runs
       ELSE /\ scheduler' = [scheduler EXCEPT !.fired = @ + 1, !.instances = @ + 1]
            /\ \E days \in AppDays : runs' = [runs EXCEPT ![0] = CallFullSync(IdleRun, days)]
    /\ UNCHANGED <<storeVars, fetchVars, sync_running, requests, workers, session, http>>

\* the job returned or raised: the executor logs it and releases the instance
SchedulerJobEnd ==
    /\ scheduler.instances > 0
    /\ runs[0].pc \in {"returned", "raised"}
    /\ scheduler' = [scheduler EXCEPT !.instances = @ - 1]
    /\ runs' = [runs EXCEPT ![0] = IdleRun]
    /\ UNCHANGED <<storeVars, fetchVars, sync_running, requests, workers, session, http>>

SchedNext ==
    \/ TriggerCheck(1)
    \/ TriggerStart(1)
    \/ WorkerStart(1)
    \/ FullSyncStep(1, AppWorld)
    \/ WorkerEnd(1)
    \/ SchedulerFire
    \/ FullSyncStep(0, AppWorld)
    \/ SchedulerJobEnd

SchedSpec == AppInit /\ [][SchedNext]_vars

----------------------------------------------------------------------------
(* app.py: login, logout and the routes behind login_required *)

\* config.DASHBOARD_PASSWORD (its default)
DASHBOARD_PASSWORD == "admin"

\* the passwords clients post
Passwords == {"admin", "wrong", ""}

\* the routes decorated with login_required that only read
ReadRoutes ==
    {"/", "/opportunities", "/movers", "/low-ctr", "/trends", "/sync-log",
     "/api/sync-status", "/api/overview"}

\* bcrypt.checkpw(password.encode(), _password_hash), _password_hash the hash of
\* DASHBOARD_PASSWORD
CheckPw(password) == password = DASHBOARD_PASSWORD

\* a decorator that lets every session through
IsLoggedInAlways(sess) == TRUE

\* login_required: session.get("logged_in")
IsLoggedIn(sess) == sess.logged_in

Request(c, method, route, password, response) ==
    [client |-> c, method |-> method, route |-> route, password |-> password,
     response |-> response]

\* POST /login
Login(c, password) ==
    /\ IF CheckPw(password)
       THEN /\ session' = [session EXCEPT ![c] = [logged_in |-> TRUE, was_logged_in |-> TRUE]]
            /\ http' = Request(c, "POST", "/login", password, "redirect_overview")
       ELSE /\ http' = Request(c, "POST", "/login", password, "login_page")
            /\ UNCHANGED session
    /\ UNCHANGED <<storeVars, fetchVars, runs, sync_running, requests, workers, scheduler>>

\* GET /logout: session.clear()
Logout(c) ==
    /\ session' = [session EXCEPT ![c].logged_in = FALSE]
    /\ http' = Request(c, "GET", "/logout", "", "redirect_login")
    /\ UNCHANGED <<storeVars, fetchVars, runs, sync_running, requests, workers, scheduler>>

\* GET of a read-only route behind login_required
Get(c, route) ==
    /\ http' = Request(c, "GET", route, "",
                       IF ~IsLoggedIn(session[c]) THEN "redirect_login" ELSE "ok")
    /\ UNCHANGED <<storeVars, fetchVars, runs, sync_running, requests, workers, scheduler,
                   session>>

\* POST /api/sync: login_required, then trigger_sync up to its test
PostSync(c, q) ==
    IF ~IsLoggedIn(session[c])
    THEN /\ http' = Request(c, "POST", "/api/sync", "", "redirect_login")
         /\ UNCHANGED <<storeVars, fetchVars, runs, sync_running, requests, workers,
                        scheduler, session>>
    ELSE /\ TriggerTest(q)
         /\ http' = Request(c, "POST", "/api/sync", "", "handled")
         /\ UNCHANGED <<scheduler, session>>

AuthNext ==
    \/ \E c \in Clients, password \in Passwords : Login(c, password)
    \/ \E c \in Clients : Logout(c)
    \/ \E c \in Clients, route \in ReadRoutes : Get(c, route)
    \/ \E c \in Clients : PostSync(c, 1)
    \/ TriggerStart(1)
    \/ WorkerStart(1)
    \/ FullSyncStep(1, AppWorld)
    \/ WorkerEnd(1)

AuthSpec == AppInit /\ [][AuthNext]_vars

----------------------------------------------------------------------------
(* fetch_property_data run against a scripted API *)

FetchInit ==
    /\ sites = {}
    /\ keyword_data = {}
    /\ site_daily = {}
    /\ sync_log = <<>>
    /\ today = 10
    /\ last = NoCall
    /\ ingested = 0
    /\ script \in SeqsUpTo(Responses, MaxPages)
    /\ fetched = NoCall
    /\ runs = [p \in Procs |-> IdleRun]
    /\ AppIdle

CallFetch ==
    /\ fetched.op = "none"
    /\ fetched' = [op |-> "fetch_property_data"] @@ fetch_property_data(script)
    /\ UNCHANGED <<storeVars, script, runs, appVars>>

FetchNext == CallFetch

FetchSpec == FetchInit /\ [][FetchNext]_vars

----------------------------------------------------------------------------
(* The store driven call by call *)

\* the store after discovery registered the two sites (full_sync, step 1) on an
\* empty database
RegisteredSites ==
    upsert_site(upsert_site({}, "a", "siteOwner", 10).sites, "b", "siteOwner", 10).sites

StoreInit ==
    /\ sites = RegisteredSites
    /\ keyword_data = {}
    /\ site_daily = {}
    /\ sync_log = <<>>
    /\ today = 10
    /\ last = NoCall
    /\ ingested = 0
    /\ script = <<>>
    /\ fetched = NoCall
    /\ runs = [p \in Procs |-> IdleRun]
    /\ AppIdle

\* site ids passed by callers: those upsert_site returned
SiteIdArgs == { st.id : st \in RegisteredSites }

CallBulkUpsert(site_id, rows) ==
    LET out == bulk_upsert_keywords(sites, keyword_data, site_id, rows)
        overwritten ==
            { i \in DOMAIN rows :
                \E g \in keyword_data :
                    /\ FactKey(g) = FactKey(FactOf(site_id, rows[i]))
                    /\ g # FactOf(site_id, rows[i]) }
    IN /\ ingested + Len(rows) <= MaxIngest
       /\ keyword_data' = out.kd
       /\ ingested' = ingested + Len(rows)
       /\ last' = [op |-> "bulk_upsert_keywords", site_id |-> site_id, rows |-> rows,
                   ret |-> out.ret, raised |-> out.raised,
                   overwrote |-> overwritten # {}]
       /\ UNCHANGED <<sites, site_daily, sync_log, today, fetchVars, runs, appVars>>

CallUpdateAggregates(site_id) ==
    /\ site_daily' = update_site_daily_aggregates(keyword_data, site_daily, site_id)
    /\ last' = [op |-> "update_site_daily_aggregates", site_id |-> site_id]
    /\ UNCHANGED <<sites, keyword_data, sync_log, today, ingested, fetchVars, runs, appVars>>

StoreNext ==
    \/ \E site_id \in SiteIdArgs, rows \in SeqsUpTo(Rows, MaxIngest - ingested) :
            CallBulkUpsert(site_id, rows)
    \/ \E site_id \in SiteIdArgs : CallUpdateAggregates(site_id)

StoreSpec == StoreInit /\ [][StoreNext]_vars

----------------------------------------------------------------------------
(* Retention: the store holding Facts around the cutoff *)

\* the dates around the retention cutoff on the day `now`, and that day itself
PurgeDates(now) == { now - DAYS_TO_KEEP - 1, now - DAYS_TO_KEEP, now }

\* rows of one keyword and page on those dates
PurgeRows(now) ==
    { [keyword |-> "k1", page |-> "p1", date |-> d, clicks |-> m.clicks,
       impressions |-> m.impressions, ctr |-> m.ctr, position |-> m.position] :
      d \in PurgeDates(now), m \in Metrics }

\* one row with impressions on each of the dates
PurgeSeed(now) ==
    LET m == CHOOSE x \in Metrics : x.impressions > 0
        row(d) == [keyword |-> "k1", page |-> "p1", date |-> d, clicks |-> m.clicks,
                   impressions |-> m.impressions, ctr |-> m.ctr, position |-> m.position]
    IN <<row(now - DAYS_TO_KEEP - 1), row(now - DAYS_TO_KEEP), row(now)>>

\* the store after the first site received a row on each of the dates
PurgeInit ==
    /\ sites = RegisteredSites
    /\ today = 10
    /\ keyword_data = bulk_upsert_keywords(RegisteredSites, {}, 1, PurgeSeed(10)).kd
    /\ site_daily = {}
    /\ sync_log = <<>>
    /\ last = NoCall
    /\ ingested = 0
    /\ script = <<>>
    /\ fetched = NoCall
    /\ runs = [p \in Procs |-> IdleRun]
    /\ AppIdle

CallCleanup ==
    LET out == cleanup_old_data(keyword_data, site_daily, today)
    IN /\ keyword_data' = out.kd
       /\ site_daily' = out.sd
       /\ last' = [op |-> "cleanup_old_data", ret |-> out.ret,
                   rollups_deleted |-> Cardinality(site_daily \ out.sd)]
       /\ UNCHANGED <<sites, sync_log, today, ingested, fetchVars, runs, appVars>>

PurgeNext ==
    \/ \E site_id \in SiteIdArgs, rows \in SeqsUpTo(PurgeRows(today), MaxIngest - ingested) :
            CallBulkUpsert(site_id, rows)
    \/ \E site_id \in SiteIdArgs : CallUpdateAggregates(site_id)
    \/ CallCleanup

PurgeSpec == PurgeInit /\ [][PurgeNext]_vars

----------------------------------------------------------------------------
(* Movers: the store holding Facts of the last days, queried by get_movers *)

\* positions 15 and 5 with impressions, and a row without impressions
MoverMetrics ==
    { [clicks |-> 1, impressions |-> 1, ctr |-> 100, position |-> 15],
      [clicks |-> 2, impressions |-> 1, ctr |-> 100, position |-> 5],
      [clicks |-> 1, impressions |-> 0, ctr |-> 0, position |-> 9] }

\* rows dated today and the two days before
MoverInputRows(now) ==
    { [keyword |-> k, page |-> "p1", date |-> d, clicks |-> m.clicks,
       impressions |-> m.impressions, ctr |-> m.ctr, position |-> m.position] :
      k \in Keywords, d \in { now - 2, now - 1, now }, m \in MoverMetrics }

\* the days and limit arguments
MoverDays == {1, 2}
MoverLimits == {1, 2}

CallGetMovers(days, limit) ==
    /\ \E ordered \in OrderedDesc(MoverRows(sites, keyword_data, today, days)) :
            last' = [op |-> "get_movers", days |-> days, limit |-> limit]
                        @@ get_movers(ordered, limit)
    /\ UNCHANGED <<sites, keyword_data, site_daily, sync_log, today, ingested, fetchVars,
                   runs, appVars>>

MoversNext ==
    \/ \E site_id \in SiteIdArgs,
          rows \in SeqsUpTo(MoverInputRows(today), MaxIngest - ingested) :
            CallBulkUpsert(site_id, rows)
    \/ \E days \in MoverDays, limit \in MoverLimits : CallGetMovers(days, limit)

MoversSpec == StoreInit /\ [][MoversNext]_vars

\* rows of a keyword at position 9 two days ago and at position 5 yesterday
MoverSeed(now, k) ==
    <<[keyword |-> k, page |-> "p1", date |-> now - 2, clicks |-> 1, impressions |-> 1,
       ctr |-> 100, position |-> 9],
      [keyword |-> k, page |-> "p1", date |-> now - 1, clicks |-> 1, impressions |-> 1,
       ctr |-> 100, position |-> 5]>>

\* the store after both keywords of the first site received those rows, and the
\* keyword of the second site the row of two days ago
MoversSeedInit ==
    /\ sites = RegisteredSites
    /\ today = 10
    /\ keyword_data =
        bulk_upsert_keywords(RegisteredSites,
            bulk_upsert_keywords(RegisteredSites, {}, 1,
                                 MoverSeed(10, "k1") \o MoverSeed(10, "k2")).kd,
            2, <<MoverSeed(10, "k1")[1]>>).kd
    /\ site_daily = {}
    /\ sync_log = <<>>
    /\ last = NoCall
    /\ ingested = 0
    /\ script = <<>>
    /\ fetched = NoCall
    /\ runs = [p \in Procs |-> IdleRun]
    /\ AppIdle

MoversSeedSpec == MoversSeedInit /\ [][MoversNext]_vars

----------------------------------------------------------------------------
(* The sites table driven call by call, over several days *)

\* the permission levels discovery reports
PermissionLevels == { e.permissionLevel : e \in SiteEntries }

SitesInit == RunInit

CallUpsertSite(url, perm) ==
    LET out == upsert_site(sites, url, perm, today)
    IN /\ sites' = out.sites
       /\ last' = [op |-> "upsert_site", url |-> url, permission_level |-> perm,
                   ret |-> out.ret]
       /\ UNCHANGED <<keyword_data, site_daily, sync_log, today, ingested, fetchVars, runs,
                      appVars>>

CallUpdateLastSync(site_id) ==
    /\ sites' = update_site_last_sync(sites, site_id, today)
    /\ last' = [op |-> "update_site_last_sync", site_id |-> site_id]
    /\ UNCHANGED <<keyword_data, site_daily, sync_log, today, ingested, fetchVars, runs,
                   appVars>>

\* a day passes
NextDate ==
    /\ today < 10 + MaxTicks
    /\ today' = today + 1
    /\ last' = [op |-> "tick"]
    /\ UNCHANGED <<sites, keyword_data, site_daily, sync_log, ingested, fetchVars, runs,
                   appVars>>

SitesNext ==
    \/ \E e \in SiteEntries, perm \in PermissionLevels : CallUpsertSite(e.siteUrl, perm)
    \/ \E s \in sites : CallUpdateLastSync(s.id)
    \/ NextDate

SitesSpec == SitesInit /\ [][SitesNext]_vars

----------------------------------------------------------------------------
(* Claims about the store *)

FactsOf(kd, site_id, d) == { f \in kd : f.site_id = site_id /\ f.query_date = d }

\* p is the quotient a / b, or 0 when b is 0
IsQuot(p, a, b) ==
    IF b = 0 THEN p[1] = 0 /\ p[2] # 0
    ELSE p[2] # 0 /\ p[1] * b = a * p[2]

\* the one Rollup of (s, d) is the aggregation of the Facts of (s, d)
RollupMatches(kd, sd, s, d) ==
    LET fs == FactsOf(kd, s, d)
        rs == { r \in sd : r.site_id = s /\ r.query_date = d }
        clk == SumOf(fs, [f \in fs |-> f.clicks])
        imps == SumOf(fs, [f \in fs |-> f.impressions])
        wpos == SumOf(fs, [f \in fs |-> f.position * f.impressions])
    IN /\ Cardinality(rs) = 1
       /\ \A r \in rs :
            /\ r.total_clicks = clk
            /\ r.total_impressions = imps
            /\ r.keyword_count = Cardinality({ f.keyword : f \in fs })
            /\ IsQuot(r.avg_position, wpos, imps)
            /\ IsQuot(r.avg_ctr, clk, imps)

\* C1: a bulk_upsert_keywords call leaves, for every key among its rows, exactly
\* one Fact, carrying the metrics of the last row with that key (a second call
\* with the same key overwrites the first call's values), and leaves the Facts
\* of every other key as they were.
C1_UpsertLastWriteWins ==
    [][ (last'.op = "bulk_upsert_keywords" /\ ~last'.raised) =>
        LET s == last'.site_id
            rows == last'.rows
            key(i) == FactKey(FactOf(s, rows[i]))
            keys == { key(i) : i \in DOMAIN rows }
        IN /\ \A i \in DOMAIN rows :
                (\A j \in DOMAIN rows : j > i => key(j) # key(i)) =>
                    { g \in keyword_data' : FactKey(g) = key(i) } = { FactOf(s, rows[i]) }
           /\ { g \in keyword_data' : FactKey(g) \notin keys }
                = { g \in keyword_data : FactKey(g) \notin keys } ]_vars

\* a call has just overwritten a Fact that held other metric values
C1_Witness ==
    /\ last.op = "bulk_upsert_keywords"
    /\ ~last.raised
    /\ last.overwrote

\* C2: right after update_site_daily_aggregates(s), every date on which s has
\* Facts has exactly one Rollup, whose totals are the sums over those Facts, whose
\* keyword_count is the number of distinct keywords, and whose averages are
\* sum(position*impressions)/sum(impressions) and sum(clicks)/sum(impressions),
\* both 0 when the impressions sum to 0.
C2_RollupAfterRecompute ==
    last.op = "update_site_daily_aggregates" =>
        LET s == last.site_id
        IN \A d \in { f.query_date : f \in { g \in keyword_data : g.site_id = s } } :
            LET fs == FactsOf(keyword_data, s, d)
                rs == { r \in site_daily : r.site_id = s /\ r.query_date = d }
                clk == SumOf(fs, [f \in fs |-> f.clicks])
                imps == SumOf(fs, [f \in fs |-> f.impressions])
                wpos == SumOf(fs, [f \in fs |-> f.position * f.impressions])
            IN /\ Cardinality(rs) = 1
               /\ \A r \in rs :
                    /\ r.total_clicks = clk
                    /\ r.total_impressions = imps
                    /\ r.keyword_count = Cardinality({ f.keyword : f \in fs })
                    /\ IsQuot(r.avg_position, wpos, imps)
                    /\ IsQuot(r.avg_ctr, clk, imps)

\* a recompute over a date holding two Facts of the site with impressions, while
\* the other site has Facts too
C2_Witness ==
    /\ last.op = "update_site_daily_aggregates"
    /\ \E d \in Dates :
        /\ Cardinality(FactsOf(keyword_data, last.site_id, d)) >= 2
        /\ \E f \in FactsOf(keyword_data, last.site_id, d) : f.impressions > 0

\* C11: cleanup_old_data deletes a Fact or a Rollup if and only if its date is
\* strictly before cutoff = today - DAYS_TO_KEEP, both tables in the same call: a
\* Fact dated cutoff - 1 is deleted, one dated cutoff and one dated today are
\* retained; the count returned is the number of Facts deleted.
C11_RetentionPurge ==
    [][ last'.op = "cleanup_old_data" =>
        LET cutoff == today - DAYS_TO_KEEP
        IN /\ keyword_data' = { f \in keyword_data : f.query_date >= cutoff }
           /\ site_daily' = { r \in site_daily : r.query_date >= cutoff }
           /\ \A f \in keyword_data :
                /\ f.query_date = cutoff - 1 => f \notin keyword_data'
                /\ f.query_date = cutoff => f \in keyword_data'
                /\ f.query_date = today => f \in keyword_data'
           /\ last'.ret = Cardinality(keyword_data \ keyword_data') ]_vars

\* a purge deleted a Fact and a Rollup and kept a Fact dated exactly the cutoff, a
\* Rollup of that date, and a Fact dated today
C11_Witness ==
    /\ last.op = "cleanup_old_data"
    /\ last.ret >= 1
    /\ last.rollups_deleted >= 1
    /\ \E f \in keyword_data : f.query_date = today - DAYS_TO_KEEP
    /\ \E r \in site_daily : r.query_date = today - DAYS_TO_KEEP
    /\ \E f \in keyword_data : f.query_date = today

\* the window of the last `days` days up to today, and the window of equal
\* length right before it
CurrentWindow(kd, now, days) ==
    { f \in kd : f.query_date > now - days /\ f.query_date <= now }
PriorWindow(kd, now, days) ==
    { f \in kd : f.query_date > now - days * 2 /\ f.query_date <= now - days }

\* the Facts of (site, keyword) among fs, and their impression-weighted position
KeyFacts(fs, site_id, keyword) == { f \in fs : f.site_id = site_id /\ f.keyword = keyword }
WeightedPos(g) ==
    <<SumOf(g, [f \in g |-> f.position * f.impressions]),
      SumOf(g, [f \in g |-> f.impressions])>>

\* the entries of a result list for (site, keyword)
EntriesOf(q, url, keyword) ==
    { n \in DOMAIN q : q[n].site_url = url /\ q[n].keyword = keyword }

\* C12 (as claimed, read in the code's favour: changes of at most 1 need not be
\* reported, nor more keys than the limit): a (source, keyword) with Facts, with
\* impressions, in both the current and the prior window, whose positions
\* p_prev and p_cur differ by more than 1, is reported with
\* pos_change = p_prev - p_cur, in winners when that is positive (p_prev = 15,
\* p_cur = 5: winners, +10) and in losers when negative; a keyword with Facts in
\* only one of the two windows is in neither list.
C12_Movers ==
    last.op = "get_movers" =>
        \A s \in sites, k \in Keywords :
            LET cur == KeyFacts(CurrentWindow(keyword_data, today, last.days), s.id, k)
                prv == KeyFacts(PriorWindow(keyword_data, today, last.days), s.id, k)
                change == FracSub(WeightedPos(prv), WeightedPos(cur))
                keys == { <<f.site_id, f.keyword>> : f \in keyword_data }
            IN /\ ( /\ cur # {} /\ prv # {}
                    /\ WeightedPos(cur)[2] > 0 /\ WeightedPos(prv)[2] > 0
                    /\ FracGt(FracAbs(change), 1)
                    /\ Cardinality(keys) <= last.limit )
                    => LET q == IF FracGt(change, 0) THEN last.winners ELSE last.losers
                       IN \E n \in EntriesOf(q, s.url, k) :
                            /\ q[n].pos_change[1] * change[2] = change[1] * q[n].pos_change[2]
                            /\ (WeightedPos(prv) = <<15, 1>> /\ WeightedPos(cur) = <<5, 1>>)
                                    => q[n].pos_change = <<10, 1>>
               /\ (cur = {} \/ prv = {})
                    => /\ EntriesOf(last.winners, s.url, k) = {}
                       /\ EntriesOf(last.losers, s.url, k) = {}

\* a Fact dated d
FactOn(d) ==
    [site_id |-> 1, keyword |-> "k1", page |-> "p1", query_date |-> d, clicks |-> 1,
     impressions |-> 1, ctr |-> 100, position |-> 5]

\* the calendar dates up to today whose Facts get_movers counts in its current
\* and in its prior window
CurrentDates(now, days) ==
    { d \in (now - days * 2 - 2)..now : ThisWeek({FactOn(d)}, now, days) # {} }
PriorDates(now, days) ==
    { d \in (now - days * 2 - 2)..now : PrevWeek({FactOn(d)}, now, days) # {} }

\* C22 (as claimed): the current and the prior window of get_movers(days) are
\* disjoint, each covers exactly `days` calendar dates, and the prior window ends
\* the day before the current one begins, which ends today.
C22_MoverWindows ==
    last.op = "get_movers" =>
        LET cur == CurrentDates(today, last.days)
            prv == PriorDates(today, last.days)
        IN /\ cur \cap prv = {}
           /\ Cardinality(cur) = last.days
           /\ Cardinality(prv) = last.days
           /\ \A d \in prv, e \in cur : d < e
           /\ \E d \in prv, e \in cur : d + 1 = e
           /\ today \in cur

\* the list q holds, in the order given by before, the (up to limit) rows of R
\* that come first in that order
IsTopOf(q, R, limit, before(_, _)) ==
    /\ Len(q) = IF Cardinality(R) < limit THEN Cardinality(R) ELSE limit
    /\ \A n \in DOMAIN q : q[n] \in R
    /\ \A m, n \in DOMAIN q : m < n => q[m] # q[n] /\ before(q[m], q[n])
    /\ \A n \in DOMAIN q : \A r \in R \ Range(q) : before(q[n], r)

\* C28 (as claimed): of the rows that qualify (Facts in both windows, positions
\* more than 1 apart), get_movers returns in losers the (up to limit) rows with
\* the most negative pos_change, ascending, and in winners the (up to limit) rows
\* with the largest positive pos_change, descending, however many rows qualify.
C28_MoversTopLimit ==
    last.op = "get_movers" =>
        LET R == MoverRows(sites, keyword_data, today, last.days)
        IN /\ IsTopOf(last.losers, { r \in R : IsLoser(r) }, last.limit,
                      LAMBDA x, y : FracLeq(x.pos_change, y.pos_change))
           /\ IsTopOf(last.winners, { r \in R : IsWinner(r) }, last.limit,
                      LAMBDA x, y : FracLeq(y.pos_change, x.pos_change))

\* the Rollups a recompute for the source s must leave alone: those of the other
\* sources, and those of s on dates on which s has no Facts
OutsideRecompute(kd, sd, s) ==
    { r \in sd : r.site_id # s \/ FactsOf(kd, s, r.query_date) = {} }

\* C26: update_site_daily_aggregates(s) leaves the Rollups of the other sources,
\* the Rollups of s on dates without Facts of s, and all Facts, Sources and Run
\* Log entries as they were, and adds no Rollup outside the dates on which s has
\* Facts; a second call right after it changes nothing.
C26_RecomputeFrame ==
    [][ last'.op = "update_site_daily_aggregates" =>
            LET s == last'.site_id
            IN /\ OutsideRecompute(keyword_data, site_daily', s)
                    = OutsideRecompute(keyword_data, site_daily, s)
               /\ keyword_data' = keyword_data
               /\ sites' = sites
               /\ sync_log' = sync_log
               /\ update_site_daily_aggregates(keyword_data', site_daily', s) = site_daily'
      ]_vars

\* a recompute for one source has run while the other source has a Rollup that
\* its Facts no longer match
C26_Witness ==
    /\ last.op = "update_site_daily_aggregates"
    /\ \E r \in site_daily : r.site_id = last.site_id
    /\ \E r \in site_daily :
        /\ r.site_id # last.site_id
        /\ FactsOf(keyword_data, r.site_id, r.query_date) # {}
        /\ ~RollupMatches(keyword_data, site_daily, r.site_id, r.query_date)

\* C15: upsert_site is insert-or-update by url: there is one row per url and one
\* url per id; a call for a url already stored returns the id stored, sets the
\* permission level to the one given and leaves added_at and last_sync as they
\* were; a call for a new url adds one row; every other row is left alone.
C15_UpsertSiteStable ==
    [][ /\ \A s, t \in sites' : (s.url = t.url \/ s.id = t.id) => s = t
        /\ last'.op = "upsert_site" =>
            LET new == CHOOSE s \in sites' : s.url = last'.url
            IN /\ \E s \in sites' : s.url = last'.url
               /\ new.id = last'.ret
               /\ new.permission_level = last'.permission_level
               /\ { s \in sites' : s.url # last'.url } = { s \in sites : s.url # last'.url }
               /\ \A old \in sites : old.url = last'.url =>
                    /\ new.id = old.id
                    /\ new.added_at = old.added_at
                    /\ new.last_sync = old.last_sync ]_vars

\* a site registered on an earlier day and synced since was upserted again with
\* another permission level
C15_Witness ==
    /\ last.op = "upsert_site"
    /\ Cardinality(sites) >= 2
    /\ \E s \in sites :
        /\ s.url = last.url
        /\ s.added_at < today
        /\ s.last_sync # NULL
        /\ s.permission_level = "siteRestrictedUser"
        /\ s.id < Max({ t.id : t \in sites })

----------------------------------------------------------------------------
(* Claims about fetch_property_data *)

IsPage(resp) == resp.kind = "rows"

\* the answer request number i received
Answer(i) == IF i <= Len(script) THEN script[i] ELSE Page(<<>>)

\* the number of the first request answered by something else than a full page
FirstEnd == CHOOSE n \in 1..(Len(script) + 1) :
                /\ ~(IsPage(Answer(n)) /\ Len(Answer(n).rows) = MAX_ROWS_PER_REQUEST)
                /\ \A m \in 1..(n - 1) :
                        IsPage(Answer(m)) /\ Len(Answer(m).rows) = MAX_ROWS_PER_REQUEST

RECURSIVE ConcatPages(_)
\* the rows of the pages 1..n, converted, in order
ConcatPages(n) ==
    IF n = 0 THEN <<>> ELSE ConcatPages(n - 1) \o ConvertRows(Answer(n).rows)

RECURSIVE RowsBefore(_)
\* the number of rows on the pages before page i
RowsBefore(i) == IF i <= 1 THEN 0 ELSE RowsBefore(i - 1) + Len(Answer(i - 1).rows)

\* C9: when the pages up to the first one that is not full are all served without
\* an error, fetch_property_data stops at that page, returns the concatenation of
\* the pages in order and has asked request i with startRow = the rows of the
\* pages before i; for pages of sizes [P, P, k], k < P, that is 2P + k rows and 3
\* requests at 0, P, 2P.
C9_Pagination ==
    (fetched.op = "fetch_property_data" /\ IsPage(Answer(FirstEnd))) =>
        /\ ~fetched.raised
        /\ Len(fetched.requests) = FirstEnd
        /\ \A i \in 1..FirstEnd : fetched.requests[i] = RowsBefore(i)
        /\ fetched.rows = ConcatPages(FirstEnd)
        /\ FirstEnd = 3 =>
            /\ Len(fetched.rows) = 2 * MAX_ROWS_PER_REQUEST + Len(Answer(3).rows)
            /\ fetched.requests = <<0, MAX_ROWS_PER_REQUEST, 2 * MAX_ROWS_PER_REQUEST>>

\* pages of sizes [P, P, k] with 0 < k < P have been fetched
C9_Witness ==
    /\ fetched.op = "fetch_property_data"
    /\ FirstEnd = 3
    /\ IsPage(Answer(3))
    /\ Len(Answer(3).rows) > 0

\* C27: a fetch_property_data call that made n requests was served full pages
\* on the first n - 1; when the n-th answer is a page it returns the rows of all
\* n pages in order; when it is a 403 it returns the empty list and raises
\* nothing, whatever the pages before held; when it is another error it raises.
\* A result that is returned is never a non-empty part of the rows served.
C27_AllOrNothing ==
    fetched.op = "fetch_property_data" =>
        LET n == Len(fetched.requests)
        IN /\ n >= 1
           /\ \A m \in 1..(n - 1) :
                IsPage(Answer(m)) /\ Len(Answer(m).rows) = MAX_ROWS_PER_REQUEST
           /\ IF IsPage(Answer(n))
              THEN ~fetched.raised /\ fetched.rows = ConcatPages(n)
              ELSE IF Answer(n).status = 403
              THEN ~fetched.raised /\ fetched.rows = <<>>
              ELSE fetched.raised
           /\ (~fetched.raised /\ fetched.rows # <<>>) =>
                /\ IsPage(Answer(n))
                /\ Len(fetched.rows) = RowsBefore(n + 1)

\* a 403 on the third request, after two full pages
C27_Witness ==
    /\ fetched.op = "fetch_property_data"
    /\ Len(fetched.requests) = 3
    /\ Answer(3) = HttpError(403)
    /\ RowsBefore(3) = 2 * MAX_ROWS_PER_REQUEST
    /\ fetched.rows = <<>>

\* a request of the last fetch of the run was answered 403
Got403(f) ==
    \E n \in 1..Len(f.requests) : n <= Len(f.script) /\ f.script[n] = HttpError(403)

\* C10: a fetch_property_data call in which a page request is answered 403 returns
\* an empty list and raises nothing; in sync_property that day stores nothing,
\* records no failure, and the loop goes on to the next day.
C10_ForbiddenIsNotFatal ==
    [][ \A p \in Procs :
            (runs[p].pc = "fetch_day" /\ runs'[p] # runs[p] /\ Got403(runs'[p].last_fetch)) =>
                /\ runs'[p].last_fetch.rows = <<>>
                /\ ~runs'[p].last_fetch.raised
                /\ keyword_data' = keyword_data
                /\ runs'[p].threw = runs[p].threw
                /\ runs'[p].errors = runs[p].errors
                /\ runs'[p].attempted = runs[p].attempted
                /\ runs'[p].day_offset = runs[p].day_offset + 1
                /\ runs'[p].pc \in {"fetch_day", "aggregates"} ]_vars

\* a day answered 403 after a full page was passed over and the source went on
C10_Witness ==
    \E p \in Procs :
        /\ Got403(runs[p].last_fetch)
        /\ Len(runs[p].last_fetch.requests) = 2
        /\ runs[p].pc = "fetch_day"
        /\ runs[p].day_offset = 1
        /\ runs[p].threw = <<>>

----------------------------------------------------------------------------
(* Claims about full_sync *)

\* the urls of a list without repetition
NoRepeat(q) == \A m, n \in DOMAIN q : q[m] = q[n] => m = n

\* the sync_log row of the run
LogEntry(run) == sync_log[run.log_id]

\* C6: every failure inside a source's sync is caught at that source: the failures
\* and the error entries correspond one to one, each entry naming its source; once
\* the loops are left every discovered source was attempted exactly once,
\* sites_synced counts the sources that did not throw, and a run that returns
\* reports completed_with_errors exactly when some source threw.
C6_RunIsolation ==
    \A p \in Procs :
        LET run == runs[p]
        IN /\ Len(run.errors) = Len(run.threw)
           /\ \A n \in DOMAIN run.errors : run.errors[n].url = run.threw[n]
           /\ NoRepeat(run.threw)
           /\ run.pc \in {"cleanup", "finalize", "returned"} =>
                /\ NoRepeat(run.attempted)
                /\ Range(run.attempted) = { e.siteUrl : e \in Range(run.properties) }
                /\ run.synced_count = Len(run.attempted) - Len(run.threw)
           /\ run.pc = "returned" =>
                /\ run.summary.sites_synced = Len(run.attempted) - Len(run.threw)
                /\ run.summary.errors = run.errors
                /\ run.summary.status =
                        IF run.threw # <<>> THEN "completed_with_errors" ELSE "completed"
                /\ LogEntry(run).status = run.summary.status

\* a run has returned in which the first source threw and a later one was synced
C6_Witness ==
    \E p \in Procs :
        /\ runs[p].pc = "returned"
        /\ Len(runs[p].attempted) >= 2
        /\ runs[p].threw = <<runs[p].attempted[1]>>
        /\ runs[p].synced_count >= 1

\* C13: a run that returned has status completed if and only if its error list
\* is empty, and completed_with_errors otherwise; the Run Log entry carries the
\* same status and the same errors as the summary; a run that discovered no
\* source has status completed.
C13_StatusFromErrors ==
    \A p \in Procs :
        runs[p].pc = "returned" =>
            LET sm == runs[p].summary
            IN /\ sm.status \in {"completed", "completed_with_errors"}
               /\ sm.status = "completed" <=> sm.errors = <<>>
               /\ LogEntry(runs[p]).status = sm.status
               /\ LogEntry(runs[p]).errors = sm.errors
               /\ sm.properties_discovered = 0 => sm.status = "completed"

\* a run returned in which every one of two sources failed
C13_Witness ==
    \E p \in Procs :
        /\ runs[p].pc = "returned"
        /\ Len(runs[p].summary.errors) = 2
        /\ runs[p].summary.sites_synced = 0
        /\ LogEntry(runs[p]).status = "completed_with_errors"

\* C14 (as claimed): when every day of a source's window has been fetched, the
\* fetches were single-day ones on consecutive days in ascending order, the day
\* today - 2 was fetched and no later day was.
C14_FetchWindow ==
    \A p \in Procs :
        (runs[p].pc = "aggregates" /\ runs[p].days > 0) =>
            LET fd == runs[p].fetch_dates
            IN /\ \A n \in DOMAIN fd : fd[n].start_date = fd[n].end_date
               /\ \A n \in DOMAIN fd : n > 1 => fd[n].start_date = fd[n - 1].start_date + 1
               /\ \A n \in DOMAIN fd : fd[n].start_date <= today - 2
               /\ \E n \in DOMAIN fd : fd[n].start_date = today - 2

\* C16: the Run Log only grows; an entry appears with status running and no
\* completed_at, in the step in which its run obtains its id; an entry changes
\* only while it is running, to completed or completed_with_errors with
\* completed_at set, and only in the finalizing step of the run holding its id: so
\* it is written at most once after its creation and never after it is finalized.
C16_RunLogLifecycle ==
    [][ /\ Len(sync_log') >= Len(sync_log)
        /\ \A n \in DOMAIN sync_log' : n \notin DOMAIN sync_log =>
                /\ sync_log'[n].status = "running"
                /\ sync_log'[n].completed_at = NULL
                /\ n = Len(sync_log) + 1
        /\ \A p \in Procs : runs'[p].log_id # runs[p].log_id =>
                /\ runs[p].pc = "create_log"
                /\ runs'[p].log_id = Len(sync_log')
                /\ Len(sync_log') = Len(sync_log) + 1
                /\ \A r \in Procs \ {p} : runs[r].log_id # runs'[p].log_id
        /\ \A n \in DOMAIN sync_log : sync_log'[n] # sync_log[n] =>
                /\ sync_log[n].status = "running"
                /\ sync_log[n].completed_at = NULL
                /\ sync_log'[n].status \in {"completed", "completed_with_errors"}
                /\ sync_log'[n].completed_at # NULL
                /\ sync_log'[n].started_at = sync_log[n].started_at
                /\ \E p \in Procs :
                    /\ runs[p].log_id = n
                    /\ runs[p].pc = "finalize"
                    /\ runs'[p].pc = "returned"
                    /\ sync_log'[n].sites_synced = runs[p].synced_count
                    /\ sync_log'[n].errors = runs[p].errors ]_vars

\* two runs have finalized their entries, one without and one with errors
C16_Witness ==
    /\ Len(sync_log) = 2
    /\ { sync_log[n].status : n \in DOMAIN sync_log } = {"completed", "completed_with_errors"}
    /\ \A p \in Triggers : runs[p].pc = "returned"

\* C18 (as claimed): a run whose cleanup step failed still finalizes its Run Log
\* entry and returns its summary, with the status its per-source errors give.
C18_CleanupFailureHarmless ==
    \A p \in Procs :
        (runs[p].failed_at = "cleanup" /\ runs[p].pc \in {"returned", "raised"}) =>
            /\ runs[p].pc = "returned"
            /\ runs[p].summary.status = StatusOf(runs[p].errors)
            /\ LogEntry(runs[p]).status = StatusOf(runs[p].errors)
            /\ LogEntry(runs[p]).completed_at # NULL

RECURSIVE FirstOccurrences(_)
\* the urls of a discovery list in order, each at its first occurrence
FirstOccurrences(props) ==
    IF props = <<>> THEN <<>>
    ELSE LET front == FirstOccurrences(SubSeq(props, 1, Len(props) - 1))
             url == props[Len(props)].siteUrl
         IN IF url \in Range(front) THEN front ELSE Append(front, url)

\* the sources of the run whose sync has ended
Finished(run) == run.synced_count + Len(run.errors)

GotApiError(f) ==
    /\ f.requests # <<>>
    /\ Len(f.requests) <= Len(f.script)
    /\ f.script[Len(f.requests)].kind = "HttpError"
    /\ f.script[Len(f.requests)].status # 403

\* C21: a fetch_property_data call in which a page request is answered by an API
\* error other than 403 raises and returns no rows; in sync_property that ends the
\* source's sync at that day: nothing is stored, the source is returned as
\* (0, error naming the source), it is not counted as synced, and the run goes on
\* to the next source, to the pause before it, or to the cleanup.
C21_ApiErrorEndsSource ==
    [][ \A p \in Procs :
            ( /\ runs[p].pc = "fetch_day"
              /\ runs'[p] # runs[p]
              /\ GotApiError(runs'[p].last_fetch) ) =>
                /\ runs'[p].last_fetch.raised
                /\ runs'[p].last_fetch.rows = <<>>
                /\ keyword_data' = keyword_data
                /\ runs'[p].errors = Append(runs[p].errors,
                                            ErrorMsg(CurrentUrl(runs[p]), "HttpError"))
                /\ runs'[p].threw = Append(runs[p].threw, CurrentUrl(runs[p]))
                /\ runs'[p].total_rows = runs[p].total_rows
                /\ runs'[p].synced_count = runs[p].synced_count
                /\ runs'[p].pc \in {"fetch_day", "sleep", "cleanup"}
                /\ runs'[p].pc = "fetch_day" =>
                        /\ Len(runs'[p].attempted) = Len(runs[p].attempted) + 1
                        /\ runs'[p].fetch_dates = <<>>
                /\ runs'[p].pc # "fetch_day" =>
                        Len(runs'[p].fetch_dates) = Len(runs[p].fetch_dates) + 1 ]_vars

\* the first of two sources failed on its second day, after rows of its first day
\* were stored, and the run goes on
C21_Witness ==
    \E p \in Procs :
        /\ runs[p].pc = "sleep"
        /\ GotApiError(runs[p].last_fetch)
        /\ Len(runs[p].fetch_dates) = 2
        /\ Len(runs[p].errors) = 1
        /\ keyword_data # {}

\* C23 (as claimed): when a run has ended, every source whose sync the run
\* attempted, also one whose sync failed after some days were upserted, has for
\* every date of its Facts a Rollup equal to the aggregation of those Facts.
C23_RollupsConsistentAfterRun ==
    \A p \in Procs :
        runs[p].pc = "returned" =>
            \A n \in DOMAIN runs[p].attempted :
                LET s == SiteIdOf(runs[p], runs[p].attempted[n])
                IN \A f \in { g \in keyword_data : g.site_id = s } :
                        RollupMatches(keyword_data, site_daily, s, f.query_date)

\* C24 (as claimed): the total_rows of the summary and of the Run Log entry is
\* the number of rows the run upserted, over all sources and days, the rows of a
\* source upserted before a later day of it failed included.
C24_TotalRowsIsIngested ==
    \A p \in Procs :
        runs[p].pc = "returned" =>
            /\ runs[p].summary.total_rows = runs[p].upserted
            /\ LogEntry(runs[p]).total_rows = runs[p].upserted

\* the last-sync time of the Source with the id, NULL when there is no such row
LastSyncOf(st, id) ==
    IF \E s \in st : s.id = id THEN (CHOOSE s \in st : s.id = id).last_sync ELSE NULL

\* C25: within the sync of one source the rollups are rebuilt only after every
\* day was fetched and upserted, and the source is marked synced only after the
\* rollups were rebuilt; a step changes the last-sync time of a Source only when
\* it is the last step of a sync of that very source in which nothing failed (it
\* then counts as synced and gets no error entry); the step in which a source's
\* sync fails changes no last-sync time.
C25_LastSyncOnlyOnSuccess ==
    [][ /\ \A s \in sites' :
            s.last_sync # LastSyncOf(sites, s.id) =>
                \E p \in Procs :
                    /\ runs[p].pc = "last_sync"
                    /\ s.id = SiteIdOf(runs[p], CurrentUrl(runs[p]))
                    /\ s.last_sync = today
                    /\ Len(runs[p].fetch_dates) = runs[p].days
                    /\ runs'[p].threw = runs[p].threw
                    /\ runs'[p].errors = runs[p].errors
                    /\ runs'[p].synced_count = runs[p].synced_count + 1
        /\ \A p \in Procs :
          LET run == runs[p]
              nxt == runs'[p]
          IN /\ (nxt.pc = "aggregates" /\ run.pc # "aggregates") =>
                    /\ run.pc = "fetch_day"
                    /\ Len(nxt.fetch_dates) = run.days
                    /\ nxt.threw = run.threw
             /\ (nxt.pc = "last_sync" /\ run.pc # "last_sync") =>
                    /\ run.pc = "aggregates"
                    /\ Len(run.fetch_dates) = run.days
                    /\ \A f \in { g \in keyword_data' :
                                    g.site_id = SiteIdOf(run, CurrentUrl(run)) } :
                            RollupMatches(keyword_data', site_daily',
                                          SiteIdOf(run, CurrentUrl(run)), f.query_date)
             /\ nxt.threw # run.threw =>
                    \A s \in sites : LastSyncOf(sites', s.id) = s.last_sync ]_vars

\* a run in which the first source failed and the second was synced: only the
\* second has a last-sync time
C25_Witness ==
    \E p \in Procs :
        /\ runs[p].pc = "returned"
        /\ Len(runs[p].site_map) = 2
        /\ Len(runs[p].threw) = 1
        /\ runs[p].synced_count = 1
        /\ keyword_data # {}
        /\ \E s, t \in sites :
            /\ s.url = runs[p].threw[1] /\ s.last_sync = NULL
            /\ t.url # s.url /\ t.last_sync = today

\* C29: in the summary a run returns, sites_synced + len(errors) is the number of
\* distinct urls discovery listed; the run entered sync_property once for each of
\* them, also for a url listed twice, and each has at most one error entry;
\* sites_synced <= properties_discovered.
C29_SummaryCounts ==
    \A p \in Procs :
        runs[p].pc = "returned" =>
            LET sm == runs[p].summary
                ids == { runs[p].properties[n].siteUrl : n \in DOMAIN runs[p].properties }
            IN /\ sm.sites_synced + Len(sm.errors) = Cardinality(ids)
               /\ NoRepeat(runs[p].attempted)
               /\ Range(runs[p].attempted) = ids
               /\ NoRepeat([n \in DOMAIN sm.errors |-> sm.errors[n].url])
               /\ sm.sites_synced <= sm.properties_discovered
               /\ sm.properties_discovered = Len(runs[p].properties)

\* a run returned after discovery listed the same url twice
C29_Witness ==
    \E p \in Procs :
        /\ runs[p].pc = "returned"
        /\ Len(runs[p].properties) = 2
        /\ runs[p].properties[1].siteUrl = runs[p].properties[2].siteUrl
        /\ runs[p].summary.sites_synced = 1
        /\ keyword_data # {}

\* C30: while and after full_sync runs a second time on the same day, with the
\* same --days, the same discovery answer and the same answers of the API for
\* each day, the Sources (their last-sync times aside), the Facts and the Rollups
\* are what the first run left;
\* the second run, once returned, has added its own entry to the Run Log and
\* changed no other.
C30_RerunIdempotent ==
    last.op = "full_sync" =>
        /\ keyword_data = last.keyword_data
        /\ site_daily = last.site_daily
        /\ { [s EXCEPT !.last_sync = NULL] : s \in sites }
                = { [s EXCEPT !.last_sync = NULL] : s \in last.sites }
        /\ Len(sync_log) <= Len(last.sync_log) + 1
        /\ SubSeq(sync_log, 1, Len(last.sync_log)) = last.sync_log
        /\ runs[1].pc = "returned" =>
            /\ Len(sync_log) = Len(last.sync_log) + 1
            /\ runs[1].log_id = Len(sync_log)
            /\ runs[1].summary = runs[0].summary

\* the second run has returned after it synced two sources, upserting rows and
\* rebuilding Rollups again
C30_Witness ==
    /\ last.op = "full_sync"
    /\ runs[1].pc = "returned"
    /\ runs[1].upserted > 0
    /\ runs[1].synced_count = 2
    /\ site_daily # {}

\* C7 (as claimed): once the worker of an on-demand run has ended, the run's
\* Run Log entry is finalized: completed_at is set and the status is completed or
\* completed_with_errors.
C7_EveryRunFinalized ==
    \A q \in Triggers :
        (workers[q] = "ended" /\ runs[q].log_id # NULL) =>
            /\ LogEntry(runs[q]).completed_at # NULL
            /\ LogEntry(runs[q]).status \in {"completed", "completed_with_errors"}

\* C8 (as claimed): when building the service or discovery fails, the run's entry
\* is finalized with the error recorded, and no source was registered or synced.
C8_AuthErrorFinalizesRun ==
    \A p \in Procs :
        (runs[p].pc = "raised" /\ runs[p].exc = "AuthError") =>
            /\ runs[p].site_map = <<>>
            /\ runs[p].attempted = <<>>
            /\ LogEntry(runs[p]).completed_at # NULL
            /\ LogEntry(runs[p]).status # "running"
            /\ LogEntry(runs[p]).errors # <<>>

----------------------------------------------------------------------------
(* Claims about the on-demand trigger *)

\* an on-demand run was started and its worker has not ended
InFlight == \E w \in Triggers : workers[w] \in {"spawned", "running"}

\* the worker is inside full_sync
InFullSync(w) == workers[w] = "running" /\ runs[w].pc \notin {"returned", "raised"}

\* C3 (as claimed): a trigger request whose test of the flag is made while an
\* on-demand run is in flight is answered already_running.
C3_RejectedWhileInFlight ==
    [][ \A q \in Triggers :
            (InFlight /\ requests[q].pc = "unsent" /\ requests'[q].pc # "unsent") =>
                requests'[q].pc = "already_running" ]_vars

\* C4 (as claimed): at most one on-demand worker is inside full_sync.
C4_AtMostOneRun ==
    Cardinality({ w \in Triggers : InFullSync(w) }) <= 1

\* a full_sync invocation is under way in process p
InProgress(p) == runs[p].pc \notin {"idle", "returned", "raised"}

\* C17 (as claimed): at no point are two runs in progress together, however they
\* were started (on demand or by the scheduler).
C17_SingleBackgroundRun ==
    Cardinality({ p \in Procs : InProgress(p) }) <= 1

\* C5: the step that ends a worker leaves the flag cleared, whether full_sync
\* returned or raised; and a trigger request tested when some run has ended and
\* none is in flight passes the test (it is then answered "started").
C5_FlagClearedAtEnd ==
    [][ /\ \A w \in Triggers :
            (workers[w] = "running" /\ workers'[w] = "ended") => sync_running' = FALSE
        /\ \A q \in Triggers :
            (Ended > 0 /\ ~InFlight /\ requests[q].pc = "unsent" /\ requests'[q].pc # "unsent")
                => requests'[q].pc = "passed" ]_vars

\* a run raised, its worker ended, and a request made afterwards was started
C5_Witness ==
    \E w, q \in Triggers :
        /\ w # q
        /\ workers[w] = "ended"
        /\ runs[w].pc = "raised"
        /\ requests[q].pc = "started"
        /\ requests[q].ended_before > 0

----------------------------------------------------------------------------
(* Claims about access control *)

\* C19: a request to a route other than /login and /logout from a session that
\* is not logged in is answered with the redirect to the login page and changes
\* nothing: in particular POST /api/sync starts no run and leaves the flag; a
\* session becomes logged in only in a POST /login of the correct password, and
\* is not logged in after /logout.
C19_AccessControl ==
    [][ /\ \A c \in Clients :
            ( /\ http' # http
              /\ http'.client = c
              /\ http'.route \notin {"/login", "/logout"}
              /\ ~session[c].logged_in )
            => /\ http'.response = "redirect_login"
               /\ UNCHANGED <<storeVars, fetchVars, runs, sync_running, requests, workers,
                              scheduler, session>>
        /\ \A c \in Clients :
            (~session[c].logged_in /\ session'[c].logged_in)
            => /\ http' = Request(c, "POST", "/login", DASHBOARD_PASSWORD, "redirect_overview")
               /\ \A d \in Clients \ {c} : session'[d] = session[d]
        /\ \A c \in Clients :
            (http' # http /\ http'.client = c /\ http'.route = "/logout")
            => ~session'[c].logged_in
        /\ \A q \in Triggers :
            (requests[q].pc = "unsent" /\ requests'[q].pc # "unsent")
            => /\ http'.route = "/api/sync"
               /\ session[http'.client].logged_in ]_vars

\* a client that had logged in and out again was redirected on POST /api/sync
\* while the other client was logged in; no run was started
C19_Witness ==
    /\ http.route = "/api/sync"
    /\ http.response = "redirect_login"
    /\ session[http.client].was_logged_in
    /\ \E d \in Clients : session[d].logged_in
    /\ requests[1].pc = "unsent"
    /\ ~sync_running

====
